---- MODULE Spec2Model ----
(***************************************************************************)
(* Model of ner-vtt-wikidata-entityID.py: the time codec, the budgeted     *)
(* cue stitcher, span-to-time resolution, the Wikidata fallback search,    *)
(* the link decision gating and the per-file main loop.                    *)
(*                                                                         *)
(* Text is a sequence of one-character strings.  Seconds are fixed point   *)
(* integers in units of 0.0001 s (ten units per millisecond).  Confidence  *)
(* scores and thresholds are integers in hundredths (0.70 is 70).          *)
(***************************************************************************)
EXTENDS Integers, Sequences, FiniteSets, TLC

VARIABLES
    pc,             \* position of the component under check
    seconds,        \* TimeCodec: the seconds value given to seconds_to_hms
    tie,            \* TimeCodec: float rounding outcome at an exact half millisecond
    hms,            \* TimeCodec: the rendered timestamp text
    parsed,         \* TimeCodec: the result of hms_to_seconds on hms
    cues,           \* the cue list given to stitch_cues
    max_tokens_per_seg,     \* token budget of a segment
    max_seconds_per_seg,    \* duration budget of a segment, in 0.0001 s
    segments,       \* the list stitch_cues returned
    span,           \* the segment index and character span given to map_span_to_time
    cue_times,      \* the pair map_span_to_time returned
    mention,        \* the mention text given to normalize_for_wd and best_wd_hit
    variants,       \* the list normalize_for_wd returned
    wd,             \* the Wikidata search service: its answer to each query
    queries,        \* the queries wikidata_search has sent, in order
    wd_result,      \* the triple best_wd_hit returned
    ent,            \* the entity span being linked
    accept_threshold,       \* --accept-threshold, in hundredths
    review_threshold,       \* --review-threshold, in hundredths
    link,           \* the triple top_link returned for ent
    decision,       \* the link fields of the row built for ent
    files,          \* main: the input files, in the order they are processed
    fidx,           \* main: the number of files the loop has gone through
    all_rows,       \* main: the accumulated rows
    errors,         \* main: the names of the files whose processing raised
    written         \* main: the three outputs, once written

timeVars == <<seconds, tie, hms, parsed>>
stitchVars == <<cues, max_tokens_per_seg, max_seconds_per_seg, segments, span, cue_times>>
wdVars == <<mention, variants, wd, queries, wd_result>>
linkVars == <<ent, accept_threshold, review_threshold, link, decision>>
mainVars == <<files, fidx, all_rows, errors, written>>
vars == <<pc, timeVars, stitchVars, wdVars, linkVars, mainVars>>

\* Python's None where a string is expected: no text is equal to it
None == <<"None">>

\* an Optional[float] in hundredths
NoScore == [some |-> FALSE, value |-> 0]

Score(n) == [some |-> TRUE, value |-> n]

\* the triple (None, None, None)
NoResult == <<None, None, NoScore>>

(***************************************************************************)
(* Character helpers                                                       *)
(***************************************************************************)
Digits == <<"0", "1", "2", "3", "4", "5", "6", "7", "8", "9">>

IsDigit(c) == \E d \in 1..10 : Digits[d] = c

DigitVal(c) == (CHOOSE d \in 1..10 : Digits[d] = c) - 1

RECURSIVE Pow10(_)
Pow10(k) == IF k = 0 THEN 1 ELSE 10 * Pow10(k - 1)

RECURSIVE ToDec(_)
ToDec(n) == IF n < 10 THEN <<Digits[n + 1]>> ELSE ToDec(n \div 10) \o <<Digits[(n % 10) + 1]>>

RECURSIVE ZeroPad(_, _)
ZeroPad(s, width) == IF Len(s) >= width THEN s ELSE ZeroPad(<<"0">> \o s, width)

\* f"{n:0<width>d}" for n >= 0: at least width digits, never truncated
FormatInt(n, width) == ZeroPad(ToDec(n), width)

RECURSIVE DecValue(_)
DecValue(s) == IF s = <<>> THEN 0 ELSE 10 * DecValue(SubSeq(s, 1, Len(s) - 1)) + DigitVal(s[Len(s)])

AllDigits(s) == s # <<>> /\ \A k \in 1..Len(s) : IsDigit(s[k])

\* str.split(sep) for a one-character separator
RECURSIVE SplitOn(_, _)
SplitOn(s, sep) ==
    IF \A k \in 1..Len(s) : s[k] # sep
    THEN <<s>>
    ELSE LET k == CHOOSE j \in 1..Len(s) : s[j] = sep /\ \A m \in 1..(j - 1) : s[m] # sep
         IN  <<SubSeq(s, 1, k - 1)>> \o SplitOn(SubSeq(s, k + 1, Len(s)), sep)

Whitespace == {" ", "\n", "\t"}

RECURSIVE LStrip(_, _)
LStrip(s, chars) == IF s # <<>> /\ s[1] \in chars THEN LStrip(Tail(s), chars) ELSE s

RECURSIVE RStrip(_, _)
RStrip(s, chars) ==
    IF s # <<>> /\ s[Len(s)] \in chars THEN RStrip(SubSeq(s, 1, Len(s) - 1), chars) ELSE s

\* str.strip(chars); str.strip() is Strip(s, Whitespace)
Strip(s, chars) == RStrip(LStrip(s, chars), chars)

\* len(s.split()): the number of maximal runs of non-whitespace characters
TokenCount(s) ==
    Cardinality({k \in 1..Len(s) : s[k] \notin Whitespace /\ (k = 1 \/ s[k - 1] \in Whitespace)})

\* " ".join(texts)
RECURSIVE JoinSpace(_)
JoinSpace(texts) ==
    IF texts = <<>> THEN <<>>
    ELSE IF Len(texts) = 1 THEN texts[1]
    ELSE texts[1] \o <<" ">> \o JoinSpace(Tail(texts))

(***************************************************************************)
(* TimeCodec                                                               *)
(***************************************************************************)
ValueError == [ok |-> FALSE, value |-> 0]

Value(n) == [ok |-> TRUE, value |-> n]

\* int(text) for an unsigned decimal
ParseInt(s) == IF AllDigits(s) THEN Value(DecValue(s)) ELSE ValueError

\* float(text) for "digits" or "digits.digits", in units of 0.0001 s
ParseFloat(s) ==
    LET parts == SplitOn(s, ".") IN
    IF Len(parts) = 1 /\ AllDigits(parts[1])
    THEN Value(10000 * DecValue(parts[1]))
    ELSE IF Len(parts) = 2 /\ AllDigits(parts[1]) /\ AllDigits(parts[2])
    THEN LET k == Len(parts[2]) IN
         Value(10000 * DecValue(parts[1])
               + (IF k <= 4 THEN DecValue(parts[2]) * Pow10(4 - k)
                            ELSE DecValue(parts[2]) \div Pow10(k - 4)))
    ELSE ValueError

hms_to_seconds(text) ==
    LET parts == SplitOn(text, ":")
        three == Len(parts) = 3
        hh == IF three THEN ParseInt(parts[1]) ELSE Value(0)
        mm == IF three THEN ParseInt(parts[2]) ELSE ParseInt(parts[1])
        ss == IF three THEN ParseFloat(parts[3]) ELSE ParseFloat(parts[2])
    IN  IF Len(parts) \notin {2, 3} \/ ~hh.ok \/ ~mm.ok \/ ~ss.ok
        THEN ValueError
        ELSE Value(hh.value * 3600 * 10000 + mm.value * 60 * 10000 + ss.value)

\* round((seconds - int(seconds)) * 1000): frac is the fractional part in
\* units of 0.0001 s.  Python rounds an exact half to even, but the float
\* product is rarely an exact half, so at a half either neighbour can come out.
RoundMsec(frac, up) ==
    LET q == frac \div 10
        r == frac % 10
    IN  IF r < 5 THEN q ELSE IF r > 5 THEN q + 1 ELSE IF up THEN q + 1 ELSE q

seconds_to_hms(secs, up) ==
    LET msec == RoundMsec(secs % 10000, up)
        ss_total == secs \div 10000
        hh == ss_total \div 3600
        mm == (ss_total % 3600) \div 60
        ss == ss_total % 60
    IN  FormatInt(hh, 2) \o <<":">> \o FormatInt(mm, 2) \o <<":">> \o FormatInt(ss, 2)
        \o <<".">> \o FormatInt(msec, 3)

(***************************************************************************)
(* SegmentStitcher: stitch_cues.  Cue indices are 0-based as in the code,  *)
(* so cue i of the code is cues[i + 1] here.                               *)
(***************************************************************************)
Cue(start, end, text) == [start |-> start, end |-> end, text |-> text]

Segment(text, char_to_cue, start_cue_idx, end_cue_idx) ==
    [text |-> text, char_to_cue |-> char_to_cue,
     start_cue_idx |-> start_cue_idx, end_cue_idx |-> end_cue_idx]

\* a budget check that forgets the duration budget
OverBudgetTokensOnly(seg_texts, est_tokens, would_len_seconds, max_tokens, max_seconds) ==
    seg_texts # <<>> /\ est_tokens > max_tokens

\* the budget check, made only after the first cue is in
OverBudget(seg_texts, est_tokens, would_len_seconds, max_tokens, max_seconds) ==
    seg_texts # <<>> /\ (est_tokens > max_tokens \/ would_len_seconds > max_seconds)

\* a char_map that advances over the join space without recording it
AppendCharMapNoSpace(char_map, seg_texts, cur_char, cue, i) ==
    LET start_char == cur_char + (IF seg_texts = <<>> THEN 0 ELSE 1)
    IN  Append(char_map, <<start_char, start_char + Len(cue.text), i>>)

\* the char_map after cue i is appended at cur_char: the join space, mapped
\* to the previous cue, then the cue's own text
AppendCharMap(char_map, seg_texts, cur_char, cue, i) ==
    LET start_char == cur_char + (IF seg_texts = <<>> THEN 0 ELSE 1)
        end_char == start_char + Len(cue.text)
    IN  IF seg_texts # <<>>
        THEN char_map \o <<<<cur_char, cur_char + 1, i - 1>>, <<start_char, end_char, i>>>>
        ELSE Append(char_map, <<start_char, end_char, i>>)

\* the inner loop from cue i on: the state of the loop when it ends
RECURSIVE GrowSegment(_, _, _, _, _, _, _, _)
GrowSegment(cs, i, seg_texts, char_map, cur_char, seg_start_time, max_tokens, max_seconds) ==
    IF i >= Len(cs)
    THEN [i |-> i, seg_texts |-> seg_texts, char_map |-> char_map]
    ELSE LET cue == cs[i + 1]
             would_len_seconds == cue.end - seg_start_time
             candidate_text == Strip(JoinSpace(Append(seg_texts, cue.text)), Whitespace)
             est_tokens == IF candidate_text # <<>> THEN TokenCount(candidate_text) ELSE 0
         IN  IF OverBudget(seg_texts, est_tokens, would_len_seconds, max_tokens, max_seconds)
             THEN [i |-> i, seg_texts |-> seg_texts, char_map |-> char_map]
             ELSE GrowSegment(cs, i + 1, Append(seg_texts, cue.text),
                              AppendCharMap(char_map, seg_texts, cur_char, cue, i),
                              cur_char + (IF seg_texts = <<>> THEN 0 ELSE 1) + Len(cue.text),
                              seg_start_time, max_tokens, max_seconds)

\* a Segment whose end index is the cue that was refused
ClosedSegmentOffByOne(start_i, grown) ==
    Segment(JoinSpace(grown.seg_texts), grown.char_map, start_i, grown.i)

\* the Segment appended when the inner loop, begun at start_i, ends in state grown
ClosedSegment(start_i, grown) ==
    Segment(JoinSpace(grown.seg_texts), grown.char_map, start_i, grown.i - 1)

\* the outer loop from cue i on
RECURSIVE StitchFrom(_, _, _, _)
StitchFrom(cs, i, max_tokens, max_seconds) ==
    IF i >= Len(cs)
    THEN <<>>
    ELSE LET grown == GrowSegment(cs, i, <<>>, <<>>, 0, cs[i + 1].start, max_tokens, max_seconds)
         IN  <<ClosedSegment(i, grown)>> \o StitchFrom(cs, grown.i, max_tokens, max_seconds)

stitch_cues(cs, max_tokens, max_seconds) == StitchFrom(cs, 0, max_tokens, max_seconds)

(***************************************************************************)
(* SpanTimeResolver: map_span_to_time                                      *)
(***************************************************************************)
\* an overlap test that takes the intervals as closed
RECURSIVE OverlappingIndicesClosed(_, _, _)
OverlappingIndicesClosed(char_to_cue, span_start, span_end) ==
    IF char_to_cue = <<>>
    THEN <<>>
    ELSE LET e == Head(char_to_cue)
             rest == OverlappingIndicesClosed(Tail(char_to_cue), span_start, span_end)
         IN  IF e[2] < span_start THEN rest
             ELSE IF e[1] > span_end THEN rest
             ELSE <<e[3]>> \o rest

\* the loop over char_to_cue: the cue indices kept, in list order
RECURSIVE OverlappingIndices(_, _, _)
OverlappingIndices(char_to_cue, span_start, span_end) ==
    IF char_to_cue = <<>>
    THEN <<>>
    ELSE LET e == Head(char_to_cue)
             rest == OverlappingIndices(Tail(char_to_cue), span_start, span_end)
         IN  IF e[2] <= span_start THEN rest
             ELSE IF e[1] >= span_end THEN rest
             ELSE <<e[3]>> \o rest

SeqMin(s) == CHOOSE m \in {s[k] : k \in 1..Len(s)} : \A k \in 1..Len(s) : m <= s[k]

SeqMax(s) == CHOOSE m \in {s[k] : k \in 1..Len(s)} : \A k \in 1..Len(s) : m >= s[k]

\* Cue times come from hms_to_seconds on millisecond timestamps, so the
\* rounding in seconds_to_hms never meets a half millisecond here.
map_span_to_time(span_start, span_end, segment, cs) ==
    LET overlapping_indices == OverlappingIndices(segment.char_to_cue, span_start, span_end)
        start_idx == IF overlapping_indices = <<>> THEN segment.start_cue_idx
                     ELSE SeqMin(overlapping_indices)
        end_idx == IF overlapping_indices = <<>> THEN segment.end_cue_idx
                   ELSE SeqMax(overlapping_indices)
    IN  <<seconds_to_hms(cs[start_idx + 1].start, FALSE), seconds_to_hms(cs[end_idx + 1].end, FALSE)>>

(***************************************************************************)
(* CandidateNormalizer: normalize_for_wd                                   *)
(***************************************************************************)
UpperLetters ==
    <<"A", "B", "C", "D", "E", "F", "G", "H", "I", "J", "K", "L", "M",
      "N", "O", "P", "Q", "R", "S", "T", "U", "V", "W", "X", "Y", "Z">>

LowerLetters ==
    <<"a", "b", "c", "d", "e", "f", "g", "h", "i", "j", "k", "l", "m",
      "n", "o", "p", "q", "r", "s", "t", "u", "v", "w", "x", "y", "z">>

IsUpperChar(c) == \E k \in 1..26 : UpperLetters[k] = c

IsLowerChar(c) == \E k \in 1..26 : LowerLetters[k] = c

\* [A-Za-z]
IsLetter(c) == IsUpperChar(c) \/ IsLowerChar(c)

LowerChar(c) ==
    IF IsUpperChar(c) THEN LowerLetters[CHOOSE k \in 1..26 : UpperLetters[k] = c] ELSE c

UpperChar(c) ==
    IF IsLowerChar(c) THEN UpperLetters[CHOOSE k \in 1..26 : LowerLetters[k] = c] ELSE c

\* str.lower()
Lower(s) == [k \in 1..Len(s) |-> LowerChar(s[k])]

\* str.title(): a letter after a non-letter is raised, any other letter lowered
Title(s) ==
    [k \in 1..Len(s) |->
        IF k = 1 \/ ~IsLetter(s[k - 1]) THEN UpperChar(s[k]) ELSE LowerChar(s[k])]

\* str.isupper(): some cased character and no lower-case one
IsUpper(s) ==
    /\ \E k \in 1..Len(s) : IsUpperChar(s[k])
    /\ \A k \in 1..Len(s) : ~IsLowerChar(s[k])

\* the characters U+201C, U+201D, U+2019 and the backtick U+0060, which have
\* no one-character spelling here
Backtick == "U+0060"

LeftDoubleQuote == "U+201C"

RightDoubleQuote == "U+201D"

RightSingleQuote == "U+2019"

\* the argument of t.strip(...) on line 330
QuoteChars == {LeftDoubleQuote, RightDoubleQuote, "\"", "'", Backtick, " "}

\* string.punctuation
Punctuation ==
    {"!", "\"", "#", "$", "%", "&", "'", "(", ")", "*", "+", ",", "-", ".", "/", ":",
     ";", "<", "=", ">", "?", "@", "[", "\\", "]", "^", "_", Backtick, "{", "|", "}", "~"}

STOP_PREFIXES == <<<<"t", "h", "e", " ">>>>

\* re.sub(r"\s+", " ", s)
RECURSIVE CollapseWhitespace(_)
CollapseWhitespace(s) ==
    IF s = <<>> THEN <<>>
    ELSE IF s[1] \in Whitespace
    THEN <<" ">> \o CollapseWhitespace(LStrip(s, Whitespace))
    ELSE <<s[1]>> \o CollapseWhitespace(Tail(s))

\* the trailing possessive removed on line 333: an apostrophe (' or U+2019)
\* and s, or s and an apostrophe, in either case
StripPossessive(s) ==
    LET n == Len(s)
        apostrophe(c) == c \in {"'", RightSingleQuote}
        ess(c) == c \in {"s", "S"}
    IN  IF n >= 2 /\ ((apostrophe(s[n - 1]) /\ ess(s[n])) \/ (ess(s[n - 1]) /\ apostrophe(s[n])))
        THEN SubSeq(s, 1, n - 2)
        ELSE s

StartsWith(s, prefix) == Len(s) >= Len(prefix) /\ SubSeq(s, 1, Len(prefix)) = prefix

\* the loop over STOP_PREFIXES: the first prefix that matches is dropped
RECURSIVE DropStopPrefix(_, _)
DropStopPrefix(s, prefixes) ==
    IF prefixes = <<>> THEN s
    ELSE IF StartsWith(Lower(s), Head(prefixes))
    THEN SubSeq(s, Len(Head(prefixes)) + 1, Len(s))
    ELSE DropStopPrefix(s, Tail(prefixes))

\* the text t after the cleaning steps, lines 326 to 343
Cleaned(txt) ==
    LET t1 == Strip(txt, Whitespace)
        t2 == CollapseWhitespace(t1)
        t3 == Strip(t2, QuoteChars)
        t4 == StripPossessive(t3)
        t5 == DropStopPrefix(t4, STOP_PREFIXES)
    IN  Strip(t5, Punctuation \cup {" "})

\* re.search(r"[A-Za-z]s$", t) and re.search(r"[A-Za-z]es$", t)
EndsLetterS(t) == Len(t) >= 2 /\ t[Len(t)] = "s" /\ IsLetter(t[Len(t) - 1])

EndsLetterEs(t) ==
    Len(t) >= 3 /\ t[Len(t)] = "s" /\ t[Len(t) - 1] = "e" /\ IsLetter(t[Len(t) - 2])

\* the variants list before deduplication, lines 346 to 355
RawVariants(t) ==
    <<t>>
    \o (IF t # <<>> /\ ~IsUpper(t) THEN <<Title(t)>> ELSE <<>>)
    \o (IF \A k \in 1..Len(t) : t[k] # " "
        THEN (IF EndsLetterS(t) THEN <<SubSeq(t, 1, Len(t) - 1)>> ELSE <<>>)
             \o (IF EndsLetterEs(t) THEN <<SubSeq(t, 1, Len(t) - 2)>> ELSE <<>>)
        ELSE <<>>)

\* a key that keeps the case: a deduplication that tells "Ab" from "AB"
DedupeKeyCaseSensitive(v) == v

\* the key under which a variant is remembered in seen
DedupeKey(v) == Lower(v)

\* the deduplication loop, lines 358 to 364
RECURSIVE Dedupe(_, _)
Dedupe(vs, seen) ==
    IF vs = <<>> THEN <<>>
    ELSE LET v == Strip(Head(vs), Whitespace) IN
         IF v # <<>> /\ DedupeKey(v) \notin seen
         THEN <<v>> \o Dedupe(Tail(vs), seen \cup {DedupeKey(v)})
         ELSE Dedupe(Tail(vs), seen)

normalize_for_wd(txt) == Dedupe(RawVariants(Cleaned(txt)), {})

(***************************************************************************)
(* FallbackResolver: wikidata_search and best_wd_hit.  The search service  *)
(* is a function from the query text to its answer: a failed request, or   *)
(* the list of hits, each with an id and a label that may be missing.      *)
(***************************************************************************)
ExactMatchScore == 85

TopHitScore == 65

Hit(id, label) == [id |-> id, label |-> label]

RequestFailed == [ok |-> FALSE, search |-> <<>>]

Answer(hits) == [ok |-> TRUE, search |-> hits]

\* a failed request is caught and gives the empty list; a query the
\* service has no entry for finds nothing
wikidata_search(q, service) ==
    IF q \in DOMAIN service /\ service[q].ok THEN service[q].search ELSE <<>>

\* (h.get("label") or "").strip()
HitLabel(h) == IF h.label = None THEN <<>> ELSE Strip(h.label, Whitespace)

\* a decision that takes the last hit whose label matches, not the first
DecideOnHitsLastMatch(q, hits) ==
    LET q_low == Lower(Strip(q, Whitespace))
        exact == {k \in 1..Len(hits) : Lower(HitLabel(hits[k])) = q_low}
    IN  IF exact # {}
        THEN LET k == CHOOSE j \in exact : \A m \in exact : j >= m
             IN  <<hits[k].id, HitLabel(hits[k]), Score(ExactMatchScore)>>
        ELSE <<hits[1].id, HitLabel(hits[1]), Score(TopHitScore)>>

\* the decision on a variant q whose search returned hits, lines 378 to 388
DecideOnHits(q, hits) ==
    LET q_low == Lower(Strip(q, Whitespace))
        exact == {k \in 1..Len(hits) : Lower(HitLabel(hits[k])) = q_low}
    IN  IF exact # {}
        THEN LET k == CHOOSE j \in exact : \A m \in exact : j <= m
             IN  <<hits[k].id, HitLabel(hits[k]), Score(ExactMatchScore)>>
        ELSE <<hits[1].id, HitLabel(hits[1]), Score(TopHitScore)>>

\* a loop that returns only on an exact match and otherwise tries the next
\* variant, falling back to the first top hit seen
RECURSIVE SearchVariantsPreferExact(_, _, _)
SearchVariantsPreferExact(vs, service, sent) ==
    IF vs = <<>>
    THEN [result |-> NoResult, queries |-> sent]
    ELSE LET q == Head(vs)
             hits == wikidata_search(q, service)
             later == SearchVariantsPreferExact(Tail(vs), service, Append(sent, q))
         IN  IF hits = <<>> THEN later
             ELSE IF DecideOnHits(q, hits)[3] = Score(ExactMatchScore)
                     \/ later.result = NoResult
             THEN [result |-> DecideOnHits(q, hits), queries |-> Append(sent, q)]
             ELSE later

\* the loop over the variants, lines 374 to 391: the triple returned and the
\* queries sent, after the queries in sent
RECURSIVE SearchVariants(_, _, _)
SearchVariants(vs, service, sent) ==
    IF vs = <<>>
    THEN [result |-> NoResult, queries |-> sent]
    ELSE LET q == Head(vs)
             hits == wikidata_search(q, service)
         IN  IF hits = <<>>
             THEN SearchVariants(Tail(vs), service, Append(sent, q))
             ELSE [result |-> DecideOnHits(q, hits), queries |-> Append(sent, q)]

best_wd_hit(txt, service) == SearchVariants(normalize_for_wd(txt), service, <<>>).result

(***************************************************************************)
(* Linking: linker_candidates, top_link and the gating of process_file     *)
(***************************************************************************)
DEFAULT_ACCEPT_THRESHOLD == 60

DEFAULT_REVIEW_THRESHOLD == 75

TopPickConfidence == 70

AliasMatchConfidence == 75

NoAliasConfidence == 55

\* an entity span of the NLP model with what the linker attached to it:
\* ext and base hold the attributes kb_qid, kb_id_, kb_id of ent._ and ent
Entity(txt, label_, start_char, end_char, ext, base, cands) ==
    [text |-> txt, label_ |-> label_, start_char |-> start_char, end_char |-> end_char,
     ext |-> ext, base |-> base, cands |-> cands]

\* an attribute of the span or of its extension: absent or None, a string,
\* or a truthy value that is no string
NoAttr == [kind |-> "none", str |-> <<>>]

StrAttr(s) == [kind |-> "str", str |-> s]

OtherAttr == [kind |-> "other", str |-> <<>>]

Truthy(v) == v.kind = "other" \/ (v.kind = "str" /\ v.str # <<>>)

\* getattr(ent._, attr, None) or getattr(ent, attr, None)
AttrOr(a, b) == IF Truthy(a) THEN a ELSE b

\* the loop over ("kb_qid", "kb_id_", "kb_id") from attribute k on: the
\* stripped identifier of the first attribute holding a non-blank string,
\* or None
RECURSIVE DirectIdFrom(_, _)
DirectIdFrom(e, k) ==
    IF k > 3 THEN None
    ELSE LET val == AttrOr(e.ext[k], e.base[k]) IN
         IF val.kind = "str" /\ Strip(val.str, Whitespace) # <<>>
         THEN Strip(val.str, Whitespace)
         ELSE DirectIdFrom(e, k + 1)

\* a candidate as linker_candidates returns it: qid and label are "" when
\* the linker gave none, score is None unless numeric
Candidate(qid, label, score, aliases) ==
    [qid |-> qid, label |-> label, score |-> score, aliases |-> aliases]

linker_candidates(e) == e.cands

\* x or None, for a string x
OrNone(x) == IF x = <<>> THEN None ELSE x

\* any(txt == (a or "").lower() for a in aliases)
AliasMatch(txt, aliases) ==
    \E k \in 1..Len(aliases) :
        txt = Lower(IF aliases[k] = None THEN <<>> ELSE aliases[k])

\* the triple taken from the first candidate c, lines 461 to 468
FromCandidate(e, c) ==
    LET qid == OrNone(c.qid)
        label == OrNone(c.label)
    IN  IF c.score.some
        THEN <<qid, label, c.score>>
        ELSE IF AliasMatch(Lower(Strip(e.text, Whitespace)), c.aliases)
        THEN <<qid, label, Score(AliasMatchConfidence)>>
        ELSE <<qid, label, Score(NoAliasConfidence)>>

\* a top_link that trusts only a scored first candidate and searches otherwise
TopLinkRunSearchesUnscored(e, service) ==
    IF DirectIdFrom(e, 1) # None
    THEN [result |-> <<DirectIdFrom(e, 1), None, Score(TopPickConfidence)>>, queries |-> <<>>]
    ELSE LET cands == linker_candidates(e) IN
         IF cands # <<>> /\ cands[1].score.some
         THEN [result |-> FromCandidate(e, cands[1]), queries |-> <<>>]
         ELSE SearchVariants(normalize_for_wd(e.text), service, <<>>)

\* top_link with the searches it issues: the triple returned and the
\* queries sent to the service, in order
TopLinkRun(e, service) ==
    IF DirectIdFrom(e, 1) # None
    THEN [result |-> <<DirectIdFrom(e, 1), None, Score(TopPickConfidence)>>, queries |-> <<>>]
    ELSE LET cands == linker_candidates(e) IN
         IF cands # <<>>
         THEN [result |-> FromCandidate(e, cands[1]), queries |-> <<>>]
         ELSE SearchVariants(normalize_for_wd(e.text), service, <<>>)

top_link(e, service) == TopLinkRun(e, service).result

\* a gate that accepts only strictly above the accept threshold
AcceptedStrict(qid, conf, accept) == qid # None /\ (~conf.some \/ conf.value > accept)

\* the accept test on line 522
Accepted(qid, conf, accept) == qid # None /\ (~conf.some \/ conf.value >= accept)

\* a review test that ignores the review threshold
BelowReviewNever(conf, review) == FALSE

\* the review test on line 525
BelowReview(conf, review) == conf.some /\ conf.value < review

\* lines 516 to 530 and the link fields of the MentionRow, lines 546 to 552
Gate(qid, wd_label, conf, cands, accept, review) ==
    IF Accepted(qid, conf, accept)
    THEN [wikidata_qid |-> qid, wikidata_label |-> wd_label, candidates |-> cands,
          link_confidence |-> conf,
          needs_review |-> BelowReview(conf, review),
          notes |-> IF BelowReview(conf, review) THEN "Accepted below review threshold" ELSE ""]
    ELSE [wikidata_qid |-> None, wikidata_label |-> None, candidates |-> cands,
          link_confidence |-> conf,
          needs_review |-> TRUE,
          notes |-> "Ambiguous or below accept threshold"]

\* lines 512 to 530 for one entity
LinkDecision(e, service, accept, review) ==
    LET t == top_link(e, service)
    IN  Gate(t[1], t[2], t[3], linker_candidates(e), accept, review)

(***************************************************************************)
(* load_vtt, process_file and the file loop of main.  A file is what the   *)
(* caption parser and the NLP model give for it: whether webvtt.read       *)
(* succeeds, the raw cues, and for each segment text either the entity     *)
(* spans or a raised exception.  The context window and the authority ids  *)
(* of a row are left out.                                                  *)
(***************************************************************************)
DEFAULT_MAX_TOKENS_PER_SEG == 50

\* 10.0 s in units of 0.0001 s
DEFAULT_MAX_SECONDS_PER_SEG == 100000

DEFAULT_LABELS == {"PERSON", "ORG", "GPE", "LOC"}

Raised == [ok |-> FALSE, value |-> <<>>]

Returned(v) == [ok |-> TRUE, value |-> v]

\* the loop of load_vtt over the raw cues
RECURSIVE LoadCues(_)
LoadCues(raw) ==
    IF raw = <<>> THEN Returned(<<>>)
    ELSE LET c == Head(raw)
             txt == CollapseWhitespace(Strip(c.text, Whitespace))
             rest == LoadCues(Tail(raw))
         IN  IF txt = <<>> THEN rest
             ELSE IF ~hms_to_seconds(c.start).ok \/ ~hms_to_seconds(c.end).ok THEN Raised
             ELSE IF ~rest.ok THEN Raised
             ELSE Returned(<<Cue(hms_to_seconds(c.start).value, hms_to_seconds(c.end).value, txt)>>
                           \o rest.value)

load_vtt(file) == IF file.readable THEN LoadCues(file.raw) ELSE Raised

\* nlp(seg.text) for the segments of this file
Nlp(file, seg_text) ==
    IF seg_text \in DOMAIN file.nlp THEN file.nlp[seg_text] ELSE Returned(<<>>)

MentionRow(file_id, times, e, d) ==
    [file_id |-> file_id, cue_start |-> times[1], cue_end |-> times[2],
     mention_text |-> e.text, label |-> e.label_,
     char_start |-> e.start_char, char_end |-> e.end_char,
     wikidata_qid |-> d.wikidata_qid, wikidata_label |-> d.wikidata_label,
     candidates |-> d.candidates, link_confidence |-> d.link_confidence,
     needs_review |-> d.needs_review, notes |-> d.notes]

\* the loop over doc.ents, lines 498 to 554
RECURSIVE EntityRows(_, _, _, _, _, _, _, _)
EntityRows(ents, file, seg, cs, labels_keep, accept, review, service) ==
    IF ents = <<>> THEN <<>>
    ELSE LET e == Head(ents)
             rest == EntityRows(Tail(ents), file, seg, cs, labels_keep, accept, review, service)
         IN  IF e.label_ \notin labels_keep THEN rest
             ELSE <<MentionRow(file.name, map_span_to_time(e.start_char, e.end_char, seg, cs),
                               e, LinkDecision(e, service, accept, review))>> \o rest

\* the loop over the segments, lines 495 to 554
RECURSIVE SegmentRows(_, _, _, _, _, _, _)
SegmentRows(segs, file, cs, labels_keep, accept, review, service) ==
    IF segs = <<>> THEN Returned(<<>>)
    ELSE LET doc == Nlp(file, Head(segs).text)
             rest == SegmentRows(Tail(segs), file, cs, labels_keep, accept, review, service)
         IN  IF ~doc.ok \/ ~rest.ok THEN Raised
             ELSE Returned(EntityRows(doc.value, file, Head(segs), cs, labels_keep,
                                      accept, review, service) \o rest.value)

\* segments = stitch_cues(cues, nlp) on line 492: process_file has no budget
\* parameter and passes none, so stitch_cues runs with its default budgets
ProcessFileSegments(cs) ==
    stitch_cues(cs, DEFAULT_MAX_TOKENS_PER_SEG, DEFAULT_MAX_SECONDS_PER_SEG)

\* the rows returned, or Raised
process_file(file, labels_keep, accept, review, service) ==
    LET loaded == load_vtt(file) IN
    IF ~loaded.ok THEN Raised
    ELSE IF loaded.value = <<>> THEN Returned(<<>>)
    ELSE SegmentRows(ProcessFileSegments(loaded.value),
                     file, loaded.value, labels_keep, accept, review, service)

\* an accumulator that keeps only the rows of the last file
RowsReplaced(rows_so_far, rows) == rows

\* all_rows.extend(rows)
RowsExtended(rows_so_far, rows) == rows_so_far \o rows

\* [r for r in all_rows if r.needs_review]
RECURSIVE ReviewRows(_)
ReviewRows(rows) ==
    IF rows = <<>> THEN <<>>
    ELSE IF Head(rows).needs_review THEN <<Head(rows)>> \o ReviewRows(Tail(rows))
    ELSE ReviewRows(Tail(rows))

(***************************************************************************)
(* Specification of the time codec: render a seconds value, parse it back  *)
(***************************************************************************)
MaxHours == 1

\* whole-second parts: every hour up to MaxHours, the first and last minute
\* and second of an hour; every fraction of a second in 0.0001 s steps
WholeSeconds ==
    {h * 3600 + m * 60 + s : h \in 0..MaxHours, m \in {0, 59}, s \in {0, 1, 59}}

TimeIdle == seconds = 0 /\ tie = FALSE /\ hms = <<>> /\ parsed = ValueError

StitchIdle ==
    /\ cues = <<>>
    /\ max_tokens_per_seg = 0
    /\ max_seconds_per_seg = 0
    /\ segments = <<>>
    /\ span = <<>>
    /\ cue_times = <<>>

WdIdle ==
    /\ mention = <<>>
    /\ variants = <<>>
    /\ wd = <<>>
    /\ queries = <<>>
    /\ wd_result = NoResult

LinkIdle ==
    /\ ent = <<>>
    /\ accept_threshold = DEFAULT_ACCEPT_THRESHOLD
    /\ review_threshold = DEFAULT_REVIEW_THRESHOLD
    /\ link = NoResult
    /\ decision = <<>>

MainIdle ==
    /\ files = <<>>
    /\ fidx = 0
    /\ all_rows = <<>>
    /\ errors = <<>>
    /\ written = <<>>

InitTime ==
    /\ pc = "time"
    /\ StitchIdle
    /\ WdIdle
    /\ LinkIdle
    /\ MainIdle
    /\ seconds \in {w * 10000 + f : w \in WholeSeconds, f \in 0..9999}
    /\ tie \in BOOLEAN
    /\ tie => seconds % 10 = 5
    /\ hms = <<>>
    /\ parsed = ValueError

Render ==
    /\ pc = "time"
    /\ hms' = seconds_to_hms(seconds, tie)
    /\ pc' = "rendered"
    /\ UNCHANGED <<seconds, tie, parsed, stitchVars, wdVars, linkVars, mainVars>>

Parse ==
    /\ pc = "rendered"
    /\ parsed' = hms_to_seconds(hms)
    /\ pc' = "parsed"
    /\ UNCHANGED <<seconds, tie, hms, stitchVars, wdVars, linkVars, mainVars>>

NextTime == Render \/ Parse

SpecTime == InitTime /\ [][NextTime]_vars

Abs(n) == IF n < 0 THEN -n ELSE n

\* C5: for every non-negative seconds value, parsing the rendered timestamp
\* gives the value back to millisecond precision (within half a millisecond),
\* and the rendered text is HH:MM:SS.mmm with a three-digit millisecond field.
TimeRoundTrip ==
    pc = "parsed" =>
        /\ parsed.ok
        /\ Abs(parsed.value - seconds) <= 5
        /\ LET parts == SplitOn(hms, ":") IN
           /\ Len(parts) = 3
           /\ Len(SplitOn(parts[3], ".")) = 2
           /\ Len(SplitOn(parts[3], ".")[2]) = 3

(***************************************************************************)
(* Specification of the stitcher: a cue list as load_vtt returns it (texts *)
(* non-empty, whitespace collapsed) and a pair of budgets, stitched        *)
(***************************************************************************)
MaxCues == 3

\* one token and two tokens
CueTexts == {<<"A">>, <<"B", " ", "C">>}

\* cue times and second budgets: whole seconds 0 s, 2 s, 4 s
CueSeconds == {0, 20000, 40000}

TokenBudgets == {1, 3, 50}

SecondBudgets == {0, 20000, 100000}

CuePool == {Cue(s, e, t) : s \in CueSeconds, e \in CueSeconds, t \in CueTexts}

RECURSIVE SeqsUpTo(_, _)
SeqsUpTo(S, n) ==
    IF n = 0 THEN {<<>>}
    ELSE LET shorter == SeqsUpTo(S, n - 1)
         IN  shorter \cup {Append(q, x) : q \in {r \in shorter : Len(r) = n - 1}, x \in S}

InitStitch ==
    /\ pc = "stitch"
    /\ TimeIdle
    /\ WdIdle
    /\ LinkIdle
    /\ MainIdle
    /\ cues \in SeqsUpTo({c \in CuePool : c.start <= c.end}, MaxCues)
    /\ max_tokens_per_seg \in TokenBudgets
    /\ max_seconds_per_seg \in SecondBudgets
    /\ segments = <<>>
    /\ span = <<>>
    /\ cue_times = <<>>

Stitch ==
    /\ pc = "stitch"
    /\ segments' = stitch_cues(cues, max_tokens_per_seg, max_seconds_per_seg)
    /\ pc' = "stitched"
    /\ UNCHANGED <<cues, max_tokens_per_seg, max_seconds_per_seg, span, cue_times, timeVars, wdVars, linkVars, mainVars>>

NextStitch == Stitch

SpecStitch == InitStitch /\ [][NextStitch]_vars

\* C1: in every returned segment the char_to_cue intervals, in list order,
\* start at 0, each begin where the previous one ended, and end at len(text).
CoverageInvariant ==
    pc = "stitched" =>
        \A n \in 1..Len(segments) :
            LET m == segments[n].char_to_cue IN
            /\ m # <<>>
            /\ m[1][1] = 0
            /\ \A k \in 1..Len(m) : m[k][1] <= m[k][2]
            /\ \A k \in 2..Len(m) : m[k][1] = m[k - 1][2]
            /\ m[Len(m)][2] = Len(segments[n].text)

CoverageWitness ==
    /\ pc = "stitched"
    /\ \E n \in 1..Len(segments) :
           /\ segments[n].end_cue_idx >= segments[n].start_cue_idx + 2
           /\ Len(segments[n].char_to_cue) = 5
           /\ Len(segments[n].text) = 7

\* C2: every returned segment of two or more cues has at most max_tokens
\* whitespace-delimited tokens and lasts, from the start of its first cue to
\* the end of its last cue, at most max_seconds.
BudgetRespect ==
    pc = "stitched" =>
        \A n \in 1..Len(segments) :
            LET g == segments[n] IN
            g.end_cue_idx > g.start_cue_idx =>
                /\ TokenCount(g.text) <= max_tokens_per_seg
                /\ cues[g.end_cue_idx + 1].end - cues[g.start_cue_idx + 1].start
                       <= max_seconds_per_seg

\* a two-cue segment exactly on both budgets, next to a one-cue segment that
\* alone lasts longer than the duration budget
BudgetWitness ==
    /\ pc = "stitched"
    /\ \E n \in 1..Len(segments) :
           LET g == segments[n] IN
           /\ g.end_cue_idx > g.start_cue_idx
           /\ TokenCount(g.text) = max_tokens_per_seg
           /\ cues[g.end_cue_idx + 1].end - cues[g.start_cue_idx + 1].start = max_seconds_per_seg
    /\ \E n \in 1..Len(segments) :
           LET g == segments[n] IN
           /\ g.end_cue_idx = g.start_cue_idx
           /\ cues[g.end_cue_idx + 1].end - cues[g.start_cue_idx + 1].start > max_seconds_per_seg

\* C3: the segments partition the cue indices in order: the first starts at
\* cue 0, each holds at least one cue, each next one starts right after the
\* previous one ended, the last ends at the last cue, and no cues give no segments.
SegmentsPartitionCues ==
    pc = "stitched" =>
        /\ (cues = <<>>) <=> (segments = <<>>)
        /\ segments # <<>> =>
               /\ segments[1].start_cue_idx = 0
               /\ segments[Len(segments)].end_cue_idx = Len(cues) - 1
        /\ \A n \in 1..Len(segments) : segments[n].start_cue_idx <= segments[n].end_cue_idx
        /\ \A n \in 2..Len(segments) :
               segments[n].start_cue_idx = segments[n - 1].end_cue_idx + 1

\* budgets no cue satisfies: every cue is over both, and each is its own segment
PartitionWitness ==
    /\ pc = "stitched"
    /\ Len(cues) = 3
    /\ Len(segments) = 3
    /\ \A k \in 1..Len(cues) :
           /\ TokenCount(cues[k].text) > max_tokens_per_seg
           /\ cues[k].end - cues[k].start > max_seconds_per_seg

(***************************************************************************)
(* Specification of span resolution: cues stitched, then one character     *)
(* span of one segment resolved to cue times                               *)
(***************************************************************************)
\* start and end of a cue: 0-2 s, 2-4 s, 4-6 s, in any order along the list
SpanCueTimes == {<<0, 20000>>, <<20000, 40000>>, <<40000, 60000>>}

SpanCuePool == {Cue(p[1], p[2], t) : p \in SpanCueTimes, t \in CueTexts}

\* budgets that split the cues, and the default budgets
SpanBudgets == {<<3, 20000>>, <<50, 100000>>}

InitSpan ==
    /\ pc = "stitch"
    /\ TimeIdle
    /\ WdIdle
    /\ LinkIdle
    /\ MainIdle
    /\ cues \in SeqsUpTo(SpanCuePool, MaxCues)
    /\ \E b \in SpanBudgets : max_tokens_per_seg = b[1] /\ max_seconds_per_seg = b[2]
    /\ segments = <<>>
    /\ span = <<>>
    /\ cue_times = <<>>

\* a span may be empty and may lie past the end of the text
MapSpan ==
    /\ pc = "stitched"
    /\ \E n \in 1..Len(segments) :
       \E span_start \in 0..(Len(segments[n].text) + 1) :
       \E span_end \in span_start..(Len(segments[n].text) + 1) :
           /\ span' = [segment |-> n, span_start |-> span_start, span_end |-> span_end]
           /\ cue_times' = map_span_to_time(span_start, span_end, segments[n], cues)
    /\ pc' = "mapped"
    /\ UNCHANGED <<cues, max_tokens_per_seg, max_seconds_per_seg, segments, timeVars, wdVars, linkVars, mainVars>>

NextSpan == Stitch \/ MapSpan

SpecSpan == InitSpan /\ [][NextSpan]_vars

\* the rendered start of cue index i and end of cue index j
RenderedTimes(i, j) ==
    <<seconds_to_hms(cues[i + 1].start, FALSE), seconds_to_hms(cues[j + 1].end, FALSE)>>

\* C4: the result is the rendered start of the lowest-indexed cue and the
\* rendered end of the highest-indexed cue among the intervals with
\* cend > span_start and cstart < span_end, and the segment's first and last
\* cue when no interval overlaps; a span inside one cue's own text gives that
\* cue alone, and a span that takes in a join space takes in the cue before it.
SpanResolution ==
    pc = "mapped" =>
        LET g == segments[span.segment]
            m == g.char_to_cue
            hit == {k \in 1..Len(m) : m[k][2] > span.span_start /\ m[k][1] < span.span_end}
            idxs == {m[k][3] : k \in hit}
            lo == CHOOSE i \in idxs : \A j \in idxs : i <= j
            hi == CHOOSE i \in idxs : \A j \in idxs : i >= j
        IN  /\ hit = {} => cue_times = RenderedTimes(g.start_cue_idx, g.end_cue_idx)
            /\ hit # {} => cue_times = RenderedTimes(lo, hi)
            /\ \A k \in 1..Len(m) :
                   /\ k % 2 = 1
                   /\ m[k][1] <= span.span_start
                   /\ span.span_start < span.span_end
                   /\ span.span_end <= m[k][2]
                   => cue_times = RenderedTimes(m[k][3], m[k][3])
            /\ \A k \in 1..Len(m) :
                   /\ k % 2 = 0
                   /\ span.span_start <= m[k][1]
                   /\ m[k][2] <= span.span_end
                   => \E i \in g.start_cue_idx..m[k - 1][3] : cue_times[1] = RenderedTimes(i, i)[1]

\* three cues with different times in one segment; the span is the join
\* space after the first cue and the second cue's text: first and second cue
SpanWitness ==
    /\ pc = "mapped"
    /\ LET g == segments[span.segment]
           m == g.char_to_cue
       IN  /\ Len(m) = 5
           /\ span.span_start = m[2][1]
           /\ span.span_end = m[3][2]
           /\ cue_times = RenderedTimes(m[1][3], m[3][3])
           /\ cue_times # RenderedTimes(m[3][3], m[3][3])
           /\ cue_times # RenderedTimes(m[1][3], m[5][3])

(***************************************************************************)
(* Specification of the normalizer: a mention text, normalized             *)
(***************************************************************************)
MaxLen == 3

MentionPrefixes ==
    {<<>>, <<"t", "h", "e", " ">>, <<"T", "h", "e", " ">>, <<" ", "\"">>, <<"(">>}

MentionChars == {"a", "e", "s", "S", " "}

MentionSuffixes ==
    {<<>>, <<"'", "s">>, <<"s", "'">>, <<"S", RightSingleQuote>>, <<"e", "s">>, <<".", "\n">>}

\* a prefix, up to MaxLen free characters, a suffix
MentionTexts ==
    {p \o c \o x : p \in MentionPrefixes, c \in SeqsUpTo(MentionChars, MaxLen),
                   x \in MentionSuffixes}

InitNormalize ==
    /\ pc = "normalize"
    /\ TimeIdle
    /\ StitchIdle
    /\ LinkIdle
    /\ MainIdle
    /\ mention \in MentionTexts
    /\ variants = <<>>
    /\ wd = <<>>
    /\ queries = <<>>
    /\ wd_result = NoResult

Normalize ==
    /\ pc = "normalize"
    /\ variants' = normalize_for_wd(mention)
    /\ pc' = "normalized"
    /\ UNCHANGED <<mention, wd, queries, wd_result, timeVars, stitchVars, linkVars, mainVars>>

NextNormalize == Normalize

SpecNormalize == InitNormalize /\ [][NextNormalize]_vars

EqualIgnoringCase(a, b) ==
    Len(a) = Len(b) /\ \A k \in 1..Len(a) : a[k] = b[k] \/ UpperChar(a[k]) = UpperChar(b[k])

\* the position in <<cleaned, title-cased, minus s, minus es>> of the form v
FormRank(t, v) ==
    IF v = t THEN 1
    ELSE IF v = Title(t) THEN 2
    ELSE IF v = SubSeq(t, 1, Len(t) - 1) THEN 3
    ELSE IF v = SubSeq(t, 1, Len(t) - 2) THEN 4
    ELSE 5

WdMentions ==
    {p \o c \o x : p \in {<<>>, <<"t", "h", "e", " ">>},
                   c \in SeqsUpTo({"a", "e", "s"}, MaxLen),
                   x \in {<<>>, <<"'", "s">>}}

Q1 == <<"Q", "1">>

Q2 == <<"Q", "2">>

Q3 == <<"Q", "3">>

\* the query in the other case, letter by letter
SwapCase(q) == [k \in 1..Len(q) |-> IF IsUpperChar(q[k]) THEN LowerChar(q[k]) ELSE UpperChar(q[k])]

OtherLabel == <<"z", "z">>

\* what the service may answer to the query q: a failure, no hit, one hit
\* with another label, a ranked list whose second and third labels match, a
\* hit without id and label, a match with spaces around the label, and a
\* match with an empty id
Answers(q) ==
    {RequestFailed,
     Answer(<<>>),
     Answer(<<Hit(Q1, OtherLabel)>>),
     Answer(<<Hit(Q1, OtherLabel), Hit(Q2, SwapCase(q)), Hit(Q3, q)>>),
     Answer(<<Hit(None, None)>>),
     Answer(<<Hit(Q1, <<" ">> \o q \o <<" ">>)>>),
     Answer(<<Hit(<<>>, q)>>)}

\* the services that differ on the variants of the mention m
Services(m) ==
    LET vs == normalize_for_wd(m)
        dom == {vs[k] : k \in 1..Len(vs)}
    IN  {f \in [dom -> UNION {Answers(q) : q \in dom}] : \A q \in dom : f[q] \in Answers(q)}

InitWd ==
    /\ pc = "search"
    /\ TimeIdle
    /\ StitchIdle
    /\ LinkIdle
    /\ MainIdle
    /\ mention \in WdMentions
    /\ variants = <<>>
    /\ wd \in Services(mention)
    /\ queries = <<>>
    /\ wd_result = NoResult

BestWdHit ==
    /\ pc = "search"
    /\ LET run == SearchVariants(normalize_for_wd(mention), wd, <<>>) IN
       /\ wd_result' = run.result
       /\ queries' = run.queries
    /\ variants' = normalize_for_wd(mention)
    /\ pc' = "searched"
    /\ UNCHANGED <<mention, wd, timeVars, stitchVars, linkVars, mainVars>>

NextWd == BestWdHit

SpecWd == InitWd /\ [][NextWd]_vars

\* the label of a hit as the code reads it: missing is empty, spaces trimmed
LabelRead(h) == IF h.label = None THEN <<>> ELSE Strip(h.label, Whitespace)

\* C8: the variants are queried in order up to and including the first one
\* whose search returns a hit, and no later one; the result is decided on
\* that variant: the first hit in rank order whose label equals the variant
\* ignoring case, with score 0.85, else the first hit with score 0.65;
\* variants without hits, failed searches included, are passed over, and
\* without any hit the result is (none, none, none).
FirstVariantWithHitsDecides ==
    pc = "searched" =>
        LET withHits == {k \in 1..Len(variants) : wd[variants[k]].ok /\ wd[variants[k]].search # <<>>}
        IN  IF withHits = {}
            THEN /\ wd_result = <<None, None, NoScore>>
                 /\ queries = variants
            ELSE LET first == CHOOSE k \in withHits : \A j \in withHits : k <= j
                     q == variants[first]
                     hits == wd[q].search
                     matches == {k \in 1..Len(hits) : EqualIgnoringCase(LabelRead(hits[k]), q)}
                 IN  /\ queries = SubSeq(variants, 1, first)
                     /\ matches # {} =>
                            \E k \in matches :
                                /\ \A j \in matches : k <= j
                                /\ wd_result = <<hits[k].id, LabelRead(hits[k]), Score(85)>>
                     /\ matches = {} =>
                            wd_result = <<hits[1].id, LabelRead(hits[1]), Score(65)>>

\* three variants: the first search fails, the second returns a ranked list
\* whose second hit is the first match, and the third is never queried
WdWitness ==
    /\ pc = "searched"
    /\ Len(variants) = 3
    /\ ~wd[variants[1]].ok
    /\ Len(queries) = 2
    /\ wd[variants[3]].ok /\ wd[variants[3]].search # <<>>
    /\ wd_result[1] = Q2
    /\ wd_result[3] = Score(85)

(***************************************************************************)
(* Specification of linking: one entity span, the linker's attributes and  *)
(* candidates for it, a search service and a pair of thresholds, decided   *)
(***************************************************************************)
Q7 == <<"Q", "7">>

Q8 == <<"Q", "8">>

\* an attribute on the extension and on the span: both absent, a blank
\* string hiding an identifier, an identifier on the span, a padded
\* identifier on the extension, a value that is no string
AttrPairs ==
    {<<NoAttr, NoAttr>>,
     <<StrAttr(<<" ">>), StrAttr(Q8)>>,
     <<NoAttr, StrAttr(Q8)>>,
     <<StrAttr(<<" ">> \o Q7 \o <<" ">>), NoAttr>>,
     <<NoAttr, OtherAttr>>}

LinkMentions == {<<"A", "s">>, <<" ", "a", " ">>}

\* scores around the thresholds
CandidateScores == {40, 60, 65, 75, 85}

\* the candidate lists of the linker: none, a first candidate with each
\* explicit score, without score and with or without a matching alias,
\* without identifier, and a second candidate that must not matter
CandidateLists ==
    {<<>>}
    \cup {<<Candidate(Q1, <<"L">>, Score(n), <<>>), Candidate(Q2, <<"M">>, Score(85), <<>>)>> :
             n \in CandidateScores}
    \cup {<<Candidate(Q1, <<"L">>, NoScore, <<None, <<"A">>>>)>>,
          <<Candidate(Q1, <<>>, NoScore, <<<<"x">>, <<"A", "S">>>>)>>,
          <<Candidate(<<>>, <<"L">>, Score(85), <<>>)>>}

\* the answers of a service in this specification
LinkAnswers(q) ==
    {RequestFailed,
     Answer(<<Hit(Q1, OtherLabel)>>),
     Answer(<<Hit(Q2, SwapCase(q))>>),
     Answer(<<Hit(<<>>, q)>>)}

LinkServices(m) ==
    LET vs == normalize_for_wd(m)
        dom == {vs[k] : k \in 1..Len(vs)}
    IN  {f \in [dom -> UNION {LinkAnswers(q) : q \in dom}] : \A q \in dom : f[q] \in LinkAnswers(q)}

\* the defaults, both thresholds on the top-pick confidence, a wide band,
\* and a review threshold below the accept threshold
ThresholdPairs ==
    {<<DEFAULT_ACCEPT_THRESHOLD, DEFAULT_REVIEW_THRESHOLD>>, <<70, 70>>, <<65, 85>>, <<75, 60>>}


InitLink ==
    /\ pc = "link"
    /\ TimeIdle
    /\ StitchIdle
    /\ MainIdle
    /\ \E m \in LinkMentions :
           /\ mention = m
           /\ wd \in LinkServices(m)
           /\ \E a1 \in AttrPairs, a2 \in {ap \in AttrPairs : ap[1] = NoAttr} :
              \E c \in CandidateLists :
                  ent = Entity(m, "PERSON", 0, Len(m),
                               <<a1[1], a2[1], NoAttr>>, <<a1[2], a2[2], OtherAttr>>, c)
    /\ variants = <<>>
    /\ queries = <<>>
    /\ wd_result = NoResult
    /\ \E th \in ThresholdPairs : accept_threshold = th[1] /\ review_threshold = th[2]
    /\ link = NoResult
    /\ decision = <<>>

LinkMention ==
    /\ pc = "link"
    /\ link' = top_link(ent, wd)
    /\ queries' = TopLinkRun(ent, wd).queries
    /\ decision' = LinkDecision(ent, wd, accept_threshold, review_threshold)
    /\ pc' = "linked"
    /\ UNCHANGED <<ent, accept_threshold, review_threshold, mention, variants, wd, wd_result,
                   timeVars, stitchVars, mainVars>>

NextLink == LinkMention

SpecLink == InitLink /\ [][NextLink]_vars

\* C6: with (id, label, confidence) the triple established for the mention:
\* if the id is present and the confidence is none or at least the accept
\* threshold, the resolved id and label are set, and needs_review is true
\* with note "Accepted below review threshold" exactly when the confidence
\* is present and below the review threshold, else false with an empty note;
\* in every other case the resolved id and label stay none, needs_review is
\* true and the note is "Ambiguous or below accept threshold".
DecisionGating ==
    pc = "linked" =>
        LET id == link[1]
            conf == link[3]
        IN  IF id # None /\ (conf = NoScore \/ conf.value >= accept_threshold)
            THEN /\ decision.wikidata_qid = id
                 /\ decision.wikidata_label = link[2]
                 /\ IF conf # NoScore /\ conf.value < review_threshold
                    THEN /\ decision.needs_review = TRUE
                         /\ decision.notes = "Accepted below review threshold"
                    ELSE /\ decision.needs_review = FALSE
                         /\ decision.notes = ""
            ELSE /\ decision.wikidata_qid = None
                 /\ decision.wikidata_label = None
                 /\ decision.needs_review = TRUE
                 /\ decision.notes = "Ambiguous or below accept threshold"

\* a confidence equal to the accept threshold and below the review
\* threshold: accepted and flagged
GatingWitness ==
    /\ pc = "linked"
    /\ accept_threshold <= review_threshold
    /\ link[3] = Score(accept_threshold)
    /\ link[3].value < review_threshold
    /\ decision.wikidata_qid = Q1
    /\ decision.needs_review = TRUE
    /\ decision.notes = "Accepted below review threshold"

\* the identifier the linker exposes directly: the first of the three
\* attributes, on the extension or else on the span, that is a non-blank string
ExposedId(e) ==
    LET shown == {k \in 1..3 :
                    LET v == IF Truthy(e.ext[k]) THEN e.ext[k] ELSE e.base[k]
                    IN  v.kind = "str" /\ \E j \in 1..Len(v.str) : v.str[j] \notin Whitespace}
    IN  IF shown = {} THEN None
        ELSE LET k == CHOOSE j \in shown : \A i \in shown : j <= i
                 v == IF Truthy(e.ext[k]) THEN e.ext[k] ELSE e.base[k]
             IN  Strip(v.str, Whitespace)

\* C7 as stated: a direct top-pick identifier gives a row with that id,
\* confidence 0.70, needs_review false and an empty note.
TopPickNeverFlagged ==
    pc = "linked" /\ ExposedId(ent) # None =>
        /\ decision.wikidata_qid = ExposedId(ent)
        /\ decision.link_confidence = Score(70)
        /\ decision.needs_review = FALSE
        /\ decision.notes = ""

\* C7 amended: a direct top-pick identifier gives the row confidence 0.70
\* whatever the candidate list; the row is gated like any other: the id is
\* resolved when accept_threshold <= 0.70, and then needs_review is false
\* with an empty note only when review_threshold <= 0.70 as well; at the
\* default thresholds 0.60 and 0.75 the id is resolved, needs_review is true
\* and the note is "Accepted below review threshold".
TopPickGated ==
    pc = "linked" /\ ExposedId(ent) # None =>
        /\ decision.link_confidence = Score(70)
        /\ accept_threshold <= 70 =>
               /\ decision.wikidata_qid = ExposedId(ent)
               /\ decision.needs_review = (review_threshold > 70)
               /\ decision.notes =
                      (IF review_threshold > 70 THEN "Accepted below review threshold" ELSE "")
        /\ accept_threshold > 70 =>
               /\ decision.wikidata_qid = None
               /\ decision.needs_review = TRUE
               /\ decision.notes = "Ambiguous or below accept threshold"
        /\ accept_threshold = 60 /\ review_threshold = 75 =>
               /\ decision.wikidata_qid = ExposedId(ent)
               /\ decision.needs_review = TRUE
               /\ decision.notes = "Accepted below review threshold"

\* a direct identifier next to a candidate list whose first candidate scores
\* 0.85, at the default thresholds
TopPickWitness ==
    /\ pc = "linked"
    /\ ExposedId(ent) = Q7
    /\ ent.cands # <<>>
    /\ ent.cands[1].score = Score(85)
    /\ accept_threshold = 60
    /\ review_threshold = 75
    /\ decision.wikidata_qid = Q7
    /\ decision.needs_review = TRUE

\* the first candidate's triple as the claim describes it
FirstCandidateTriple(e) ==
    LET c == e.cands[1]
        txt == Lower(Strip(e.text, Whitespace))
        aliased == \E k \in 1..Len(c.aliases) :
                       c.aliases[k] # None /\ Lower(c.aliases[k]) = txt
    IN  <<IF c.qid = <<>> THEN None ELSE c.qid,
          IF c.label = <<>> THEN None ELSE c.label,
          IF c.score # NoScore THEN c.score
          ELSE IF aliased THEN Score(75) ELSE Score(55)>>

\* C11: top_link takes the direct identifier when the linker exposes one,
\* else the first candidate of a non-empty candidate list (its score
\* verbatim, else 0.75 on a case-insensitive alias match, else 0.55), and in
\* both cases sends no search; only with no direct identifier and an empty
\* candidate list does it search, and then it returns the fallback's result.
SourcePriority ==
    pc = "linked" =>
        IF ExposedId(ent) # None
        THEN /\ link = <<ExposedId(ent), None, Score(70)>>
             /\ queries = <<>>
        ELSE IF ent.cands # <<>>
        THEN /\ link = FirstCandidateTriple(ent)
             /\ queries = <<>>
        ELSE /\ link = best_wd_hit(ent.text, wd)
             /\ queries # <<>>
             /\ queries[1] = normalize_for_wd(ent.text)[1]

\* no direct identifier, a first candidate without score whose alias matches
\* the mention, and a service that has a hit for the mention: the candidate
\* decides and nothing is searched
SourcePriorityWitness ==
    /\ pc = "linked"
    /\ ExposedId(ent) = None
    /\ ent.cands # <<>>
    /\ ent.cands[1].score = NoScore
    /\ wikidata_search(normalize_for_wd(ent.text)[1], wd) # <<>>
    /\ link = <<Q1, None, Score(75)>>
    /\ queries = <<>>

\* C13: in every row needs_review is true exactly when the note is not
\* empty, and a row whose resolved id is absent, none or the empty string,
\* has needs_review true with note "Ambiguous or below accept threshold".
UnidentifiedAlwaysReviewed ==
    pc = "linked" =>
        /\ decision.needs_review <=> decision.notes # ""
        /\ decision.wikidata_qid \in {None, <<>>} =>
               /\ decision.needs_review = TRUE
               /\ decision.notes = "Ambiguous or below accept threshold"

(***************************************************************************)
(* Specification of a configured run: the budgets given on the command     *)
(* line, the cues loaded from one file, and the segments process_file      *)
(* builds from them                                                        *)
(***************************************************************************)
\* args.max_tokens_per_seg and args.max_seconds_per_seg, lines 594 and 595:
\* the defaults and smaller values
InitConfigured ==
    /\ pc = "configured"
    /\ TimeIdle
    /\ WdIdle
    /\ LinkIdle
    /\ MainIdle
    /\ cues \in SeqsUpTo({c \in CuePool : c.start <= c.end}, MaxCues)
    /\ max_tokens_per_seg \in TokenBudgets \cup {DEFAULT_MAX_TOKENS_PER_SEG}
    /\ max_seconds_per_seg \in SecondBudgets \cup {DEFAULT_MAX_SECONDS_PER_SEG}
    /\ segments = <<>>
    /\ span = <<>>
    /\ cue_times = <<>>

\* the stitching step of process_file, called from main with the parsed arguments
SegmentFile ==
    /\ pc = "configured"
    /\ cues # <<>>
    /\ segments' = ProcessFileSegments(cues)
    /\ pc' = "segmented"
    /\ UNCHANGED <<cues, max_tokens_per_seg, max_seconds_per_seg, span, cue_times,
                   timeVars, wdVars, linkVars, mainVars>>

\* if not cues: return mentions, line 489
NothingToSegment ==
    /\ pc = "configured"
    /\ cues = <<>>
    /\ pc' = "segmented"
    /\ UNCHANGED <<stitchVars, timeVars, wdVars, linkVars, mainVars>>

NextConfigured == SegmentFile \/ NothingToSegment

SpecConfigured == InitConfigured /\ [][NextConfigured]_vars

\* C12: every segment of two or more cues that process_file builds has at
\* most the configured max-tokens-per-seg tokens and lasts at most the
\* configured max-seconds-per-seg.
ConfiguredBudgetRespect ==
    pc = "segmented" =>
        \A n \in 1..Len(segments) :
            LET g == segments[n] IN
            g.end_cue_idx > g.start_cue_idx =>
                /\ TokenCount(g.text) <= max_tokens_per_seg
                /\ cues[g.end_cue_idx + 1].end - cues[g.start_cue_idx + 1].start
                       <= max_seconds_per_seg

(***************************************************************************)
(* Specification of main: a list of input files, processed one by one,     *)
(* then the outputs written                                                *)
(***************************************************************************)
MaxFiles == 3

Stamp(n) == seconds_to_hms(n, FALSE)

RawCue(start, end, txt) == [start |-> start, end |-> end, text |-> txt]

PlainEntity(txt, label_, start_char) ==
    Entity(txt, label_, start_char, start_char + Len(txt),
           <<NoAttr, NoAttr, NoAttr>>, <<NoAttr, NoAttr, OtherAttr>>, <<>>)

LinkedEntity(txt, label_, start_char, qid) ==
    Entity(txt, label_, start_char, start_char + Len(txt),
           <<StrAttr(qid), NoAttr, NoAttr>>, <<NoAttr, NoAttr, OtherAttr>>, <<>>)

\* two cues and a blank one in one segment "A b C d": a person, a date that
\* is not kept, a place
FileA ==
    [name |-> "a.vtt", readable |-> TRUE,
     raw |-> <<RawCue(Stamp(0), Stamp(20000), <<"A", " ", " ", "b">>),
               RawCue(Stamp(20000), Stamp(30000), <<" ", "\n">>),
               RawCue(Stamp(20000), Stamp(50000), <<"C", " ", "d", "\n">>)>>,
     nlp |-> (<<"A", " ", "b", " ", "C", " ", "d">> :>
                 Returned(<<LinkedEntity(<<"A">>, "PERSON", 0, Q7),
                            PlainEntity(<<"b">>, "DATE", 2),
                            PlainEntity(<<"C">>, "GPE", 4)>>))]

\* two cues 12 s apart: two segments, two entities in the first, one in the second
FileB ==
    [name |-> "b.vtt", readable |-> TRUE,
     raw |-> <<RawCue(Stamp(0), Stamp(60000), <<"E", " ", "F">>),
               RawCue(<<"0", "0", ":", "0", "6", ".", "0", "0", "0">>, Stamp(120000), <<"G">>)>>,
     nlp |-> (<<"E", " ", "F">> :> Returned(<<PlainEntity(<<"E">>, "ORG", 0),
                                             LinkedEntity(<<"F">>, "LOC", 2, Q8)>>))
             @@ (<<"G">> :> Returned(<<PlainEntity(<<"G">>, "PERSON", 0)>>))]

\* a file the caption parser rejects
FileC == [name |-> "c.vtt", readable |-> FALSE, raw |-> <<>>, nlp |-> <<>>]

\* two segments; the NLP model raises on the second, after the first gave a row
FileD ==
    [name |-> "d.vtt", readable |-> TRUE,
     raw |-> <<RawCue(Stamp(0), Stamp(60000), <<"H">>),
               RawCue(Stamp(60000), Stamp(120000), <<"I">>)>>,
     nlp |-> (<<"H">> :> Returned(<<PlainEntity(<<"H">>, "PERSON", 0)>>))
             @@ (<<"I">> :> Raised)]

\* a cue whose end is no timestamp
FileE ==
    [name |-> "e.vtt", readable |-> TRUE,
     raw |-> <<RawCue(Stamp(0), <<"x">>, <<"J">>)>>,
     nlp |-> (<<"J">> :> Returned(<<PlainEntity(<<"J">>, "PERSON", 0)>>))]

\* a file without cues
FileF == [name |-> "f.vtt", readable |-> TRUE, raw |-> <<>>, nlp |-> <<>>]

FilePool == {FileA, FileB, FileC, FileD, FileE, FileF}

\* a service that knows the mention "G" and fails on the mention "C"
MainService ==
    (<<"G">> :> Answer(<<Hit(Q1, <<"g">>)>>)) @@ (<<"C">> :> RequestFailed)

InitMain ==
    /\ pc = "loop"
    /\ TimeIdle
    /\ StitchIdle
    /\ mention = <<>>
    /\ variants = <<>>
    /\ wd = MainService
    /\ queries = <<>>
    /\ wd_result = NoResult
    /\ ent = <<>>
    /\ \E th \in ThresholdPairs : accept_threshold = th[1] /\ review_threshold = th[2]
    /\ link = NoResult
    /\ decision = <<>>
    /\ files \in SeqsUpTo(FilePool, MaxFiles)
    /\ fidx = 0
    /\ all_rows = <<>>
    /\ errors = <<>>
    /\ written = <<>>

ProcessNext ==
    process_file(files[fidx + 1], DEFAULT_LABELS, accept_threshold, review_threshold, wd)

\* one iteration of the loop whose process_file returns
FileProcessed ==
    /\ pc = "loop"
    /\ fidx < Len(files)
    /\ ProcessNext.ok
    /\ all_rows' = RowsExtended(all_rows, ProcessNext.value)
    /\ fidx' = fidx + 1
    /\ UNCHANGED <<pc, files, errors, written, timeVars, stitchVars, wdVars, linkVars>>

\* one iteration of the loop whose process_file raises: the error is printed
FileFailed ==
    /\ pc = "loop"
    /\ fidx < Len(files)
    /\ ~ProcessNext.ok
    /\ errors' = Append(errors, files[fidx + 1].name)
    /\ fidx' = fidx + 1
    /\ UNCHANGED <<pc, files, all_rows, written, timeVars, stitchVars, wdVars, linkVars>>

WriteOutputs ==
    /\ pc = "loop"
    /\ fidx = Len(files)
    /\ written' = [jsonl |-> all_rows, csv |-> all_rows, needs_review_csv |-> ReviewRows(all_rows)]
    /\ pc' = "done"
    /\ UNCHANGED <<files, fidx, all_rows, errors, timeVars, stitchVars, wdVars, linkVars>>

NextMain == FileProcessed \/ FileFailed \/ WriteOutputs

SpecMain == InitMain /\ [][NextMain]_vars

\* the files of the pool whose processing raises, and for the others the
\* mentions of their rows in segment order, then entity order
RaisingFiles == {"c.vtt", "d.vtt", "e.vtt"}

ExpectedMentions(name) ==
    IF name = "a.vtt" THEN <<<<"a.vtt", <<"A">>>>, <<"a.vtt", <<"C">>>>>>
    ELSE IF name = "b.vtt" THEN <<<<"b.vtt", <<"E">>>>, <<"b.vtt", <<"F">>>>, <<"b.vtt", <<"G">>>>>>
    ELSE <<>>

RECURSIVE ExpectedOutput(_)
ExpectedOutput(names) ==
    IF names = <<>> THEN <<>> ELSE ExpectedMentions(Head(names)) \o ExpectedOutput(Tail(names))

FileNames == [k \in 1..Len(files) |-> files[k].name]

RunOutcome ==
    /\ \A k \in 1..Len(errors) : errors[k] \in RaisingFiles
    /\ pc = "done" =>
           /\ fidx = Len(files)
           /\ errors = SelectSeq(FileNames, LAMBDA n : n \in RaisingFiles)
           /\ [k \in 1..Len(all_rows) |-> <<all_rows[k].file_id, all_rows[k].mention_text>>]
                  = ExpectedOutput(FileNames)
           /\ written # <<>>
           /\ written.jsonl = all_rows
           /\ written.csv = all_rows

\* a step taken while files remain goes on to the next file, whether the
\* file raised or not; the rows gathered so far are kept
LoopContinues ==
    (pc = "loop" /\ fidx < Len(files)) =>
        /\ pc' = "loop"
        /\ fidx' = fidx + 1
        /\ Len(all_rows') >= Len(all_rows)
        /\ SubSeq(all_rows', 1, Len(all_rows)) = all_rows

\* C9: the run goes through every file in order and never stops on a file
\* that raises: every iteration goes on to the next file, and at the end
\* the accumulated rows are the rows of the files that did not raise, in
\* file order, within a file in segment order and then entity order, and
\* the outputs are written with them.
RunSurvivesFileErrors == []RunOutcome /\ [][LoopContinues]_vars

\* a raising file between two files with rows: the rows of both are written
MainWitness ==
    /\ pc = "done"
    /\ Len(files) = 3
    /\ files[1].name = "b.vtt"
    /\ files[2].name = "d.vtt"
    /\ files[3].name = "a.vtt"
    /\ errors = <<"d.vtt">>
    /\ Len(written.jsonl) = 5

====
